---------------------------- MODULE Spec2Model ----------------------------
(***************************************************************************)
(* A model of freesas.model.SASModel (src/freesas/model.py): the bead      *)
(* model of a small-angle-scattering reconstruction, its PDB reader and    *)
(* writer, its centroid / inertia tensor / canonical pose, its lazily      *)
(* cached fineness and the normalized spatial discrepancy (dist).          *)
(*                                                                         *)
(* Numbers.  A Python/numpy float is modelled by an exact signed fraction  *)
(* [neg, n, d]: the value (-1)^neg * n / d.  d = 0 holds the IEEE          *)
(* specials: n = 0 is NaN, n = 1 is an infinity.  A zero keeps its sign.   *)
(* n = 2 with d = 0 is Unknown: a float the exact arithmetic does not      *)
(* determine (a component of an eigenvector that is no coordinate axis,    *)
(* the content of memory that was never written); whatever is computed     *)
(* from it is Unknown too, or NaN.  A value numpy obtains by a square root *)
(* is kept as [sqrt |-> q], the non-negative number whose square is q.     *)
(***************************************************************************)
EXTENDS Integers, Sequences, FiniteSets, TLC

VARIABLES atoms, header, com, inertensor, _fineness, _sem,
          pc, ncalc, ret, disk

vars == <<atoms, header, com, inertensor, _fineness, _sem, pc, ncalc, ret, disk>>

(***************************************************************************)
(* Bounds of the model.                                                    *)
(***************************************************************************)
MaxAtoms == 2
NThreads == 3
MaxLines == 2
SqrtScale == 1000

Models == {1, 2}
Threads == 1..NThreads

(***************************************************************************)
(* Exact arithmetic on the modelled floats.                                *)
(***************************************************************************)
RECURSIVE GCD(_, _)
GCD(a, b) == IF b = 0 THEN a ELSE GCD(b, a % b)

Mk(neg, n, d) ==
    IF d = 0 THEN [neg |-> (IF n = 0 THEN FALSE ELSE neg), n |-> (IF n = 0 THEN 0 ELSE 1), d |-> 0]
    ELSE LET g == GCD(n, d) IN [neg |-> neg, n |-> n \div g, d |-> d \div g]

R(i) == IF i < 0 THEN Mk(TRUE, -i, 1) ELSE Mk(FALSE, i, 1)
Frac(i, j) == IF i < 0 THEN Mk(TRUE, -i, j) ELSE Mk(FALSE, i, j)

NaN == [neg |-> FALSE, n |-> 0, d |-> 0]
Unknown == [neg |-> FALSE, n |-> 2, d |-> 0]
IsNaN(a) == a.d = 0 /\ a.n = 0
IsUnknown(a) == a.d = 0 /\ a.n = 2
IsInf(a) == a.d = 0 /\ a.n = 1
IsZero(a) == a.d # 0 /\ a.n = 0
Signed(a) == IF a.neg THEN -a.n ELSE a.n

RNeg(a) == IF IsNaN(a) \/ IsUnknown(a) THEN a ELSE [a EXCEPT !.neg = ~a.neg]

RMul(a, b) ==
    IF IsNaN(a) \/ IsNaN(b) THEN NaN
    ELSE IF IsUnknown(a) \/ IsUnknown(b) THEN Unknown
    ELSE Mk(a.neg # b.neg, a.n * b.n, a.d * b.d)

RInv(a) == IF IsUnknown(a) THEN Unknown ELSE Mk(a.neg, a.d, a.n)

RDiv(a, b) == RMul(a, RInv(b))

RAdd(a, b) ==
    IF IsNaN(a) \/ IsNaN(b) THEN NaN
    ELSE IF IsUnknown(a) \/ IsUnknown(b) THEN Unknown
    ELSE IF IsInf(a) /\ IsInf(b) THEN (IF a.neg = b.neg THEN a ELSE NaN)
    ELSE IF IsInf(a) THEN a
    ELSE IF IsInf(b) THEN b
    ELSE LET num == Signed(a) * b.d + Signed(b) * a.d
         IN  IF num = 0
             THEN Mk(a.n = 0 /\ b.n = 0 /\ a.neg /\ b.neg, 0, 1)
             ELSE Frac(num, a.d * b.d)

RSub(a, b) == RAdd(a, RNeg(b))

\* a < b on finite values and infinities; every comparison with NaN is false (and none with Unknown is known)
RLt(a, b) ==
    /\ ~IsNaN(a) /\ ~IsNaN(b)
    /\ ~IsUnknown(a) /\ ~IsUnknown(b)
    /\ IF IsInf(a) THEN a.neg /\ ~(IsInf(b) /\ b.neg)
       ELSE IF IsInf(b) THEN ~b.neg
       ELSE Signed(a) * b.d < Signed(b) * a.d

REq(a, b) == ~IsNaN(a) /\ ~IsNaN(b) /\ ~RLt(a, b) /\ ~RLt(b, a)

RECURSIVE RSum(_)
RSum(s) == IF Len(s) = 0 THEN R(0)
           ELSE IF Len(s) = 1 THEN s[1]
           ELSE RAdd(RSum(SubSeq(s, 1, Len(s) - 1)), s[Len(s)])

\* numpy's min / max of a non-empty array: a NaN anywhere gives NaN
RECURSIVE RMin(_)
RMin(s) == IF Len(s) = 1 THEN s[1]
           ELSE LET m == RMin(SubSeq(s, 1, Len(s) - 1))
                IN  IF IsNaN(m) \/ IsNaN(s[Len(s)]) THEN NaN
                    ELSE IF IsUnknown(m) \/ IsUnknown(s[Len(s)]) THEN Unknown
                    ELSE IF RLt(s[Len(s)], m) THEN s[Len(s)] ELSE m

RECURSIVE RMax(_)
RMax(s) == IF Len(s) = 1 THEN s[1]
           ELSE LET m == RMax(SubSeq(s, 1, Len(s) - 1))
                IN  IF IsNaN(m) \/ IsNaN(s[Len(s)]) THEN NaN
                    ELSE IF IsUnknown(m) \/ IsUnknown(s[Len(s)]) THEN Unknown
                    ELSE IF RLt(m, s[Len(s)]) THEN s[Len(s)] ELSE m

\* numpy.sqrt(q) and x**0.5: kept as the number whose square is q
Sqrt(q) == [sqrt |-> q]

(***************************************************************************)
(* Python values of the fields of a SASModel.                              *)
(***************************************************************************)
None == [none |-> TRUE]
PyList == [ndarray |-> FALSE]
Arr(pts) == [ndarray |-> TRUE, pts |-> pts]
IsArr(a) == a.ndarray
NAtoms(a) == IF IsArr(a) THEN Len(a.pts) ELSE 0
Pt(x, y, z) == <<R(x), R(y), R(z)>>

Raised(op, m, exc) == [op |-> op, m |-> m, raised |-> exc]
Returned(op, m, val) == [op |-> op, m |-> m, val |-> val]
NoCall == [op |-> "none"]

\* the files the model reads and writes: Missing, or File(the content)
Missing == [exists |-> FALSE]
File(text) == [exists |-> TRUE, text |-> text]
FileNames == {"in", "out"}
NoFiles == [f \in FileNames |-> Missing]


(***************************************************************************)
(* Array helpers: a 1-d array is a sequence, a 2-d array a sequence of     *)
(* rows.                                                                   *)
(***************************************************************************)
\* numpy arrays hold their elements: Tup and Tup2 evaluate a 1-d and a 2-d array
Tup(f) == f \o <<>>
Tup2(M) == Tup([i \in 1..Len(M) |-> Tup(M[i])])
Column(pts, k) == Tup([i \in 1..Len(pts) |-> pts[i][k]])

\* delta_expand(vec1, vec2): the 2-d array of v1[i] - v2[j]
delta_expand(vec1, vec2) ==
    Tup2([i \in 1..Len(vec1) |-> [j \in 1..Len(vec2) |-> RSub(vec1[i], vec2[j])]])

MatSquare(M) == Tup2([i \in 1..Len(M) |-> [j \in 1..Len(M[i]) |-> RMul(M[i][j], M[i][j])]])
MatAdd(M, N) == Tup2([i \in 1..Len(M) |-> [j \in 1..Len(M[i]) |-> RAdd(M[i][j], N[i][j])]])

\* delta_expand(x,x')**2 + delta_expand(y,y')**2 + delta_expand(z,z')**2
SquaredDistances(p1, p2) ==
    MatAdd(MatAdd(MatSquare(delta_expand(Column(p1, 1), Column(p2, 1))),
                  MatSquare(delta_expand(Column(p1, 2), Column(p2, 2)))),
           MatSquare(delta_expand(Column(p1, 3), Column(p2, 3))))

RECURSIVE Flatten(_)
Flatten(M) == IF Len(M) = 0 THEN <<>> ELSE M[1] \o Flatten(Tail(M))

\* M.min(axis=1): one minimum per row; M.min(axis=0): one per column
MinAxis1(M) == Tup([i \in 1..Len(M) |-> RMin(M[i])])
MinAxis0(M) == Tup([j \in 1..Len(M[1]) |-> RMin(Tup([i \in 1..Len(M) |-> M[i][j]]))])

Eye(n) == Tup2([i \in 1..n |-> [j \in 1..n |-> IF i = j THEN R(1) ELSE R(0)]])
MatScale(c, M) == Tup2([i \in 1..Len(M) |-> [j \in 1..Len(M[i]) |-> RMul(c, M[i][j])]])
Mean(v) == RDiv(RSum(v), R(Len(v)))

(***************************************************************************)
(* SASModel._calc_fineness, pure fallback path (_distance is None):        *)
(* either [val |-> the float returned] or [raised |-> the exception].      *)
(***************************************************************************)
FinenessOfPoints(pts) ==
    LET D   == SquaredDistances(pts, pts)
        d12 == Mean(MinAxis0(MatAdd(MatScale(RMax(Flatten(D)), Eye(Len(pts))), D)))
    IN  Sqrt(d12)

_calc_fineness(a) ==
    IF ~IsArr(a) THEN [raised |-> "TypeError"]          \* [][:,0] on a list
    ELSE IF Len(a.pts) = 0 THEN [raised |-> "IndexError"]   \* numpy.array([]) is 1-d
    ELSE [val |-> FinenessOfPoints(a.pts)]

(***************************************************************************)
(* The fineness property run by one thread without interruption: the       *)
(* cache after the call, and what the call returned or raised.             *)
(***************************************************************************)
\* MUTANT: the property without its cache, computing at every read
fineness_recomputed(m, cache, a) ==
    LET c == _calc_fineness(a[m])
    IN  IF "raised" \in DOMAIN c
        THEN [cache |-> cache, raised |-> c.raised]
        ELSE [cache |-> [cache EXCEPT ![m] = c.val], val |-> c.val]

fineness(m, cache, a) ==
    IF cache[m] # None THEN [cache |-> cache, val |-> cache[m]]
    ELSE LET c == _calc_fineness(a[m])
         IN  IF "raised" \in DOMAIN c
             THEN [cache |-> cache, raised |-> c.raised]
             ELSE [cache |-> [cache EXCEPT ![m] = c.val], val |-> c.val]

(***************************************************************************)
(* SASModel.dist, pure fallback path.                                      *)
(***************************************************************************)
\* f*f for a float f obtained as a square root
Squared(f) == f.sqrt

\* MUTANT: both sums scaled by the fineness of self
DistValueOwnFineness(p1, p2, fself, fother) ==
    LET d2 == SquaredDistances(p1, p2)
        t1 == RMul(RDiv(R(1), RMul(R(Len(p1)), Squared(fself))), RSum(MinAxis1(d2)))
        t2 == RMul(RDiv(R(1), RMul(R(Len(p2)), Squared(fself))), RSum(MinAxis0(d2)))
    IN  Sqrt(RMul(Frac(1, 2), RAdd(t1, t2)))

DistValue(p1, p2, fself, fother) ==
    LET d2 == SquaredDistances(p1, p2)
        t1 == RMul(RDiv(R(1), RMul(R(Len(p1)), Squared(fother))), RSum(MinAxis1(d2)))
        t2 == RMul(RDiv(R(1), RMul(R(Len(p2)), Squared(fself))), RSum(MinAxis0(d2)))
    IN  Sqrt(RMul(Frac(1, 2), RAdd(t1, t2)))

\* mol[:,0] on what the model holds: the exception it raises, or "ok"
Index2d(a) == IF ~IsArr(a) THEN "TypeError"
              ELSE IF Len(a.pts) = 0 THEN "IndexError" ELSE "ok"

dist(s, o) ==
    IF Index2d(atoms[s]) # "ok"
    THEN /\ ret' = Raised("dist", <<s, o>>, Index2d(atoms[s]))
         /\ UNCHANGED _fineness
    ELSE IF Index2d(atoms[o]) # "ok"
    THEN /\ ret' = Raised("dist", <<s, o>>, Index2d(atoms[o]))
         /\ UNCHANGED _fineness
    ELSE LET fo == fineness(o, _fineness, atoms)
             fs == fineness(s, fo.cache, atoms)
         IN  /\ _fineness' = fs.cache
             /\ ret' = Returned("dist", <<s, o>>,
                                DistValue(atoms[s].pts, atoms[o].pts, fs.val, fo.val))

Dist(s, o) ==
    /\ dist(s, o)
    /\ UNCHANGED <<atoms, header, com, inertensor, _sem, pc, ncalc, disk>>

\* reading the fineness property from a single thread
Fineness(m) ==
    LET f == fineness(m, _fineness, atoms)
    IN  /\ _fineness' = f.cache
        /\ ret' = IF "raised" \in DOMAIN f THEN Raised("fineness", m, f.raised)
                  ELSE Returned("fineness", m, f.val)
        /\ UNCHANGED <<atoms, header, com, inertensor, _sem, pc, ncalc, disk>>

(***************************************************************************)
(* SASModel.__init__                                                       *)
(***************************************************************************)
InitModel ==
    /\ atoms = [m \in Models |-> PyList]
    /\ header = [m \in Models |-> <<>>]
    /\ com = [m \in Models |-> PyList]
    /\ inertensor = [m \in Models |-> PyList]
    /\ _fineness = [m \in Models |-> None]
    /\ _sem = [m \in Models |-> 1]

InitRest ==
    /\ pc = [t \in Threads |-> "idle"]
    /\ ncalc = [m \in Models |-> 0]
    /\ ret = NoCall
    /\ disk = NoFiles

(***************************************************************************)
(* The discrepancy of two models whose atoms were assigned beforehand.     *)
(***************************************************************************)
GridSeq == <<Pt(0, 0, 0), Pt(1, 0, 0), Pt(0, 2, 1)>>
Grid == {GridSeq[i] : i \in 1..Len(GridSeq)}

SeqsUpTo(S, k) == UNION {[1..n -> S] : n \in 0..k}

\* the second model's atoms are listed in the order of GridSeq
SortedSeqsUpTo(k) ==
    {[i \in 1..Len(f) |-> GridSeq[f[i]]] :
        f \in {g \in SeqsUpTo(1..Len(GridSeq), k) : \A i \in 1..Len(g) - 1 : g[i] <= g[i + 1]}}

InitDist ==
    /\ atoms \in {[m \in Models |-> IF m = 1 THEN a ELSE b] :
                    a \in {PyList} \cup {Arr(p) : p \in SeqsUpTo(Grid, MaxAtoms + 1)},
                    b \in {PyList} \cup {Arr(p) : p \in SortedSeqsUpTo(MaxAtoms)}}
    /\ header = [m \in Models |-> <<>>]
    /\ com = [m \in Models |-> PyList]
    /\ inertensor = [m \in Models |-> PyList]
    /\ _fineness = [m \in Models |-> None]
    /\ _sem = [m \in Models |-> 1]
    /\ InitRest

NextDist ==
    \/ \E m \in Models : Fineness(m)
    \/ \E s \in Models, o \in Models : Dist(s, o)

SpecDist == InitDist /\ [][NextDist]_vars


(***************************************************************************)
(* Integer square root, and bounds of a square root to 1/SqrtScale.        *)
(***************************************************************************)
RECURSIVE ISqrtIn(_, _, _)
ISqrtIn(lo, hi, x) ==
    IF lo >= hi THEN lo
    ELSE LET mid == (lo + hi + 1) \div 2
         IN  IF mid * mid <= x THEN ISqrtIn(mid, hi, x) ELSE ISqrtIn(lo, mid - 1, x)

ISqrt(x) == ISqrtIn(0, IF x < 46340 THEN x ELSE 46340, x)

\* for a finite q >= 0: SqrtLo(q) <= sqrt(q) <= SqrtHi(q), SqrtHi - SqrtLo <= 1/SqrtScale
SqrtLo(q) == Frac(ISqrt(q.n * q.d * SqrtScale * SqrtScale), q.d * SqrtScale)
SqrtHi(q) ==
    LET x == q.n * q.d * SqrtScale * SqrtScale
        r == ISqrt(x)
    IN  Frac(IF r * r = x THEN r ELSE r + 1, q.d * SqrtScale)

RLe(a, b) == RLt(a, b) \/ REq(a, b)

\* the squared distance from atom i to its nearest other atom
NearestOther2(pts, i) ==
    RMin(Tup([k \in 1..Len(pts) - 1 |->
              LET j == IF k < i THEN k ELSE k + 1
              IN  RAdd(RAdd(RMul(RSub(pts[i][1], pts[j][1]), RSub(pts[i][1], pts[j][1])),
                            RMul(RSub(pts[i][2], pts[j][2]), RSub(pts[i][2], pts[j][2]))),
                       RMul(RSub(pts[i][3], pts[j][3]), RSub(pts[i][3], pts[j][3])))]))

MeanNearestLo(pts) == Mean(Tup([i \in 1..Len(pts) |-> SqrtLo(NearestOther2(pts, i))]))
MeanNearestHi(pts) == Mean(Tup([i \in 1..Len(pts) |-> SqrtHi(NearestOther2(pts, i))]))

\* a model with a defined, non-zero fineness: two atoms or more, one of them with no other atom at its place
Valid(a) ==
    /\ IsArr(a) /\ NAtoms(a) >= 2
    /\ \E i \in 1..NAtoms(a) : \A j \in 1..NAtoms(a) : j # i => a.pts[j] # a.pts[i]

IsDist(s, o) == ret.op = "dist" /\ ret.m = <<s, o>>

(***************************************************************************)
(* C2: for every non-empty model A, dist(A, A') with A' holding the same   *)
(* atoms as A returns exactly 0.  Refuted: a single atom, or atoms all at  *)
(* one place, have fineness 0 and the discrepancy is NaN.                  *)
(***************************************************************************)
C2_SelfDistIsZero ==
    \A s, o \in Models :
        (IsDist(s, o) /\ NAtoms(atoms[s]) >= 1 /\ atoms[o] = atoms[s])
            => ("val" \in DOMAIN ret /\ IsZero(ret.val.sqrt))

(***************************************************************************)
(* C3: for all valid models A and B, of equal or unequal atom counts,      *)
(* A.dist(B) equals B.dist(A).                                             *)
(***************************************************************************)
C3_DistSymmetric ==
    \A s, o \in Models :
        (IsDist(s, o) /\ Valid(atoms[s]) /\ Valid(atoms[o]))
            => /\ "val" \in DOMAIN ret
               /\ REq(ret.val.sqrt,
                      DistValue(atoms[o].pts, atoms[s].pts, _fineness[o], _fineness[s]).sqrt)

C3_Witness ==
    /\ IsDist(1, 2) /\ Valid(atoms[1]) /\ Valid(atoms[2])
    /\ NAtoms(atoms[1]) # NAtoms(atoms[2])
    /\ "val" \in DOMAIN ret /\ RLt(R(0), ret.val.sqrt)

(***************************************************************************)
(* C6: reading the fineness of a model with exactly one atom fails with    *)
(* DegenerateModelError and yields no number.  Refuted: it returns 0.0,    *)
(* which is cached.                                                        *)
(***************************************************************************)
C6_SingleAtomFinenessFails ==
    \A m \in Models :
        (ret.op = "fineness" /\ ret.m = m /\ NAtoms(atoms[m]) = 1)
            => /\ "raised" \in DOMAIN ret
               /\ ret.raised = "DegenerateModelError"
               /\ _fineness[m] = None

(***************************************************************************)
(* C9: for a model of two atoms or more, the fineness returned is the mean *)
(* over the atoms of the distance to the nearest other atom (to within     *)
(* 1/SqrtScale).  Refuted: the code returns the root of the mean SQUARED   *)
(* nearest distance.                                                       *)
(***************************************************************************)
C9_FinenessIsMeanNearest ==
    \A m \in Models :
        (ret.op = "fineness" /\ ret.m = m /\ NAtoms(atoms[m]) >= 2)
            => /\ "val" \in DOMAIN ret
               /\ LET lo == MeanNearestLo(atoms[m].pts)
                      hi == MeanNearestHi(atoms[m].pts)
                  IN  /\ RLe(RMul(lo, lo), ret.val.sqrt)
                      /\ RLe(ret.val.sqrt, RMul(hi, hi))


(***************************************************************************)
(* The fineness property read by several threads on model 1, one step per  *)
(* line of the property: the check, the semaphore's acquire (with), the    *)
(* re-check, the call of _calc_fineness, its return and the store, the     *)
(* semaphore's release (the end of the with block, also when the call      *)
(* raised) and the return.  ncalc counts the calls of _calc_fineness.      *)
(***************************************************************************)
Self == 1

Call(t) ==
    /\ pc[t] = "idle"
    /\ pc' = [pc EXCEPT ![t] = "check"]
    /\ UNCHANGED <<atoms, header, com, inertensor, _fineness, _sem, ncalc, ret, disk>>

Check(t) ==
    /\ pc[t] = "check"
    /\ pc' = [pc EXCEPT ![t] = IF _fineness[Self] = None THEN "acquire" ELSE "return"]
    /\ UNCHANGED <<atoms, header, com, inertensor, _fineness, _sem, ncalc, ret, disk>>

Acquire(t) ==
    /\ pc[t] = "acquire"
    /\ _sem[Self] > 0
    /\ _sem' = [_sem EXCEPT ![Self] = @ - 1]
    /\ pc' = [pc EXCEPT ![t] = "recheck"]
    /\ UNCHANGED <<atoms, header, com, inertensor, _fineness, ncalc, ret, disk>>

Recheck(t) ==
    /\ pc[t] = "recheck"
    /\ pc' = [pc EXCEPT ![t] = IF _fineness[Self] = None THEN "compute" ELSE "release"]
    /\ UNCHANGED <<atoms, header, com, inertensor, _fineness, _sem, ncalc, ret, disk>>

Compute(t) ==
    /\ pc[t] = "compute"
    /\ ncalc' = [ncalc EXCEPT ![Self] = @ + 1]
    /\ pc' = [pc EXCEPT ![t] = "computing"]
    /\ UNCHANGED <<atoms, header, com, inertensor, _fineness, _sem, ret, disk>>

Store(t) ==
    /\ pc[t] = "computing"
    /\ LET c == _calc_fineness(atoms[Self])
       IN  IF "raised" \in DOMAIN c
           THEN /\ pc' = [pc EXCEPT ![t] = "unwind"]
                /\ UNCHANGED _fineness
           ELSE /\ pc' = [pc EXCEPT ![t] = "release"]
                /\ _fineness' = [_fineness EXCEPT ![Self] = c.val]
    /\ UNCHANGED <<atoms, header, com, inertensor, _sem, ncalc, ret, disk>>

Release(t) ==
    /\ pc[t] \in {"release", "unwind"}
    /\ _sem' = [_sem EXCEPT ![Self] = @ + 1]
    /\ pc' = [pc EXCEPT ![t] = IF pc[t] = "release" THEN "return" ELSE "raised"]
    /\ ret' = IF pc[t] = "release" THEN ret
              ELSE Raised("fineness", Self, _calc_fineness(atoms[Self]).raised)
    /\ UNCHANGED <<atoms, header, com, inertensor, _fineness, ncalc, disk>>

Return(t) ==
    /\ pc[t] = "return"
    /\ pc' = [pc EXCEPT ![t] = "done"]
    /\ ret' = Returned("fineness", Self, _fineness[Self])
    /\ UNCHANGED <<atoms, header, com, inertensor, _fineness, _sem, ncalc, disk>>

ThreadAtoms ==
    {PyList} \cup {Arr(SubSeq(GridSeq, 1, n)) : n \in 0..Len(GridSeq)}

InitThreads ==
    /\ atoms \in {[m \in Models |-> IF m = Self THEN a ELSE PyList] : a \in ThreadAtoms}
    /\ header = [m \in Models |-> <<>>]
    /\ com = [m \in Models |-> PyList]
    /\ inertensor = [m \in Models |-> PyList]
    /\ _fineness = [m \in Models |-> None]
    /\ _sem = [m \in Models |-> 1]
    /\ InitRest

NextThreads ==
    \E t \in Threads :
        \/ Call(t)
        \/ Check(t)
        \/ Acquire(t)
        \/ Recheck(t)
        \/ Compute(t)
        \/ Store(t)
        \/ Release(t)
        \/ Return(t)

SpecThreads == InitThreads /\ [][NextThreads]_vars

Computing == {t \in Threads : pc[t] = "computing"}

(***************************************************************************)
(* C1: whatever the interleaving of the threads reading the fineness of    *)
(* one model, _calc_fineness is executed at most once and no two threads   *)
(* are inside it at the same time.  Refuted for a model with no atoms: the *)
(* call raises inside the with block, the semaphore is released, nothing   *)
(* is cached and the next thread calls it again.                           *)
(***************************************************************************)
C1_AtMostOnce ==
    /\ ncalc[Self] <= 1
    /\ Cardinality(Computing) <= 1


(***************************************************************************)
(* Text.  A Python str is a TLA+ string; a character is a string of        *)
(* length 1.  The characters are those up to U+00FF.                       *)
(***************************************************************************)
Ch(s, i) == SubSeq(s, i, i)
Slice(s, from, to) == SubSeq(s, from + 1, IF to < Len(s) THEN to ELSE Len(s))   \* s[from:to]
SliceFrom(s, from) == SubSeq(s, from + 1, Len(s))                              \* s[from:]
\* str.isspace: tab, line feed, vertical tab, form feed, carriage return, U+001C to U+001F, space, U+0085, U+00A0
IsSpace(c) == c \in {" ", "\t", "\n", "\r", "", "\f", "", "", "", "", "", " "}
IsDigit(c) == c \in {"0", "1", "2", "3", "4", "5", "6", "7", "8", "9"}
DigitVal(c) == CHOOSE v \in 0..9 : Ch("0123456789", v + 1) = c
DigitChr(v) == Ch("0123456789", v + 1)

\* line.startswith("ATOM")
StartsWithATOM(line) == Slice(line, 0, 4) = "ATOM"

\* the first position from i on whose character is blank (blank = TRUE) or is not, or Len(s) + 1
FirstAt(s, i, blank) ==
    CHOOSE j \in i..Len(s) + 1 :
        /\ j = Len(s) + 1 \/ IsSpace(Ch(s, j)) = blank
        /\ \A k \in i..j - 1 : IsSpace(Ch(s, k)) # blank

\* the position of the first line end (\n, \r) from i on, or Len(s) + 1
FirstNewline(s, i) ==
    CHOOSE j \in i..Len(s) + 1 :
        /\ j = Len(s) + 1 \/ Ch(s, j) \in {"\n", "\r"}
        /\ \A k \in i..j - 1 : Ch(s, k) \notin {"\n", "\r"}

\* iterating over a file opened in text mode (universal newlines): the lines, each line end
\* (\n, \r or \r\n) given as \n; the last line has none if the file does not end with one
RECURSIVE LinesFrom(_, _)
LinesFrom(s, i) ==
    IF i > Len(s) THEN <<>>
    ELSE LET e == FirstNewline(s, i)
         IN  IF e > Len(s) THEN <<SubSeq(s, i, Len(s))>>
             ELSE <<SubSeq(s, i, e - 1) \o "\n">>
                  \o LinesFrom(s, IF Ch(s, e) = "\r" /\ e < Len(s) /\ Ch(s, e + 1) = "\n" THEN e + 2 ELSE e + 1)

FileLines(content) == LinesFrom(content, 1)

\* line.split(): the maximal runs of non-blank characters
RECURSIVE SplitFrom(_, _)
SplitFrom(s, i) ==
    LET b == FirstAt(s, i, FALSE)
        e == FirstAt(s, b, TRUE)
    IN  IF b > Len(s) THEN <<>>
        ELSE <<SubSeq(s, b, e - 1)>> \o SplitFrom(s, e)

Split(line) == SplitFrom(line, 1)

RECURSIVE Pow10(_)
Pow10(k) == IF k = 0 THEN 1 ELSE 10 * Pow10(k - 1)

RECURSIVE DigitsVal(_)
DigitsVal(s) == IF Len(s) = 0 THEN 0
                ELSE 10 * DigitsVal(SubSeq(s, 1, Len(s) - 1)) + DigitVal(Ch(s, Len(s)))

(***************************************************************************)
(* float(token): [val |-> x], or [raised |-> "ValueError"].  The token,   *)
(* without the blanks around it, is                                        *)
(*     [sign] (digitpart ["."] [digitpart] | "." digitpart) [exponent]     *)
(* with digitpart = digit (["_"] digit)* and exponent = e|E [sign]         *)
(* digitpart, or [sign] inf | infinity | nan in any case of the letters.   *)
(* The value is the decimal number itself; a number beyond the doubles is  *)
(* an infinity, one below them a zero, and a number the integers of the    *)
(* model cannot hold as a fraction is Unknown.                             *)
(***************************************************************************)
IsDigitPart(s) ==
    /\ Len(s) >= 1
    /\ IsDigit(Ch(s, 1)) /\ IsDigit(Ch(s, Len(s)))
    /\ \A i \in 1..Len(s) : IsDigit(Ch(s, i)) \/ (Ch(s, i) = "_" /\ Ch(s, i + 1) # "_")

\* the digits of a digitpart
RECURSIVE Digits(_)
Digits(s) ==
    IF Len(s) = 0 THEN ""
    ELSE (IF Ch(s, 1) = "_" THEN "" ELSE Ch(s, 1)) \o Digits(SubSeq(s, 2, Len(s)))

RECURSIVE StripLeadingZeros(_)
StripLeadingZeros(s) ==
    IF Len(s) >= 1 /\ Ch(s, 1) = "0" THEN StripLeadingZeros(SubSeq(s, 2, Len(s))) ELSE s

RECURSIVE StripTrailingZeros(_)
StripTrailingZeros(s) ==
    IF Len(s) >= 1 /\ Ch(s, Len(s)) = "0" THEN StripTrailingZeros(SubSeq(s, 1, Len(s) - 1)) ELSE s

\* s is the word, whatever the case of its letters
EqNoCase(s, lower, upper) ==
    /\ Len(s) = Len(lower)
    /\ \A i \in 1..Len(s) : Ch(s, i) \in {Ch(lower, i), Ch(upper, i)}

\* the first position in s of a character of cs, or Len(s) + 1
FirstOf(s, cs) ==
    CHOOSE i \in 1..Len(s) + 1 :
        /\ i = Len(s) + 1 \/ Ch(s, i) \in cs
        /\ \A j \in 1..i - 1 : Ch(s, j) \notin cs

\* the decimal number all * 10^k, all a string of digits
DecimalValue(neg, all, k) ==
    LET lead   == StripLeadingZeros(all)
        digits == StripTrailingZeros(lead)
        nd     == Len(digits)
        e      == k + Len(lead) - nd
    IN  IF nd = 0 THEN Mk(neg, 0, 1)
        ELSE IF nd - 1 + e >= 309 THEN Mk(neg, 1, 0)
        ELSE IF nd + e <= -324 THEN Mk(neg, 0, 1)
        ELSE IF nd <= 9 /\ e >= 0 /\ nd + e <= 9 THEN Mk(neg, DigitsVal(digits) * Pow10(e), 1)
        ELSE IF nd <= 9 /\ e < 0 /\ e >= -6 THEN Mk(neg, DigitsVal(digits), Pow10(-e))
        ELSE Unknown

\* [digitpart] ["."] [digitpart] with a digit in it, times 10^e
Mantissa(neg, mant, e) ==
    LET dot == FirstOf(mant, {"."})
        ip  == SubSeq(mant, 1, dot - 1)
        fp  == SubSeq(mant, dot + 1, Len(mant))
    IN  IF (ip = "" \/ IsDigitPart(ip)) /\ (fp = "" \/ IsDigitPart(fp)) /\ (ip # "" \/ fp # "")
        THEN [val |-> DecimalValue(neg, Digits(ip) \o Digits(fp), e - Len(Digits(fp)))]
        ELSE [raised |-> "ValueError"]

\* [sign] digitpart after the e: the exponent, cut off where every number is an infinity or a zero
Exponent(expo) ==
    LET signed == Len(expo) >= 1 /\ Ch(expo, 1) \in {"-", "+"}
        part   == IF signed THEN SliceFrom(expo, 1) ELSE expo
        ed     == StripLeadingZeros(Digits(part))
    IN  IF IsDigitPart(part)
        THEN [val |-> (IF Ch(expo, 1) = "-" THEN -1 ELSE 1) * (IF Len(ed) > 4 THEN 99999 ELSE DigitsVal(ed))]
        ELSE [raised |-> "ValueError"]

\* the token after its sign
Unsigned(neg, body) ==
    LET mark == FirstOf(body, {"e", "E"})
        e    == IF mark > Len(body) THEN [val |-> 0] ELSE Exponent(SubSeq(body, mark + 1, Len(body)))
    IN  IF EqNoCase(body, "inf", "INF") \/ EqNoCase(body, "infinity", "INFINITY") THEN [val |-> Mk(neg, 1, 0)]
        ELSE IF EqNoCase(body, "nan", "NAN") THEN [val |-> NaN]
        ELSE IF "raised" \in DOMAIN e THEN e
        ELSE Mantissa(neg, SubSeq(body, 1, mark - 1), e.val)

\* s.strip()
Strip(s) ==
    LET b == FirstAt(s, 1, FALSE)
        e == CHOOSE j \in 0..Len(s) : (j = 0 \/ ~IsSpace(Ch(s, j))) /\ \A k \in j + 1..Len(s) : IsSpace(Ch(s, k))
    IN  SubSeq(s, b, e)

ParseFloat(token) ==
    LET tok    == Strip(token)
        signed == Len(tok) >= 1 /\ Ch(tok, 1) \in {"-", "+"}
    IN  Unsigned(Len(tok) >= 1 /\ Ch(tok, 1) = "-", IF signed THEN SliceFrom(tok, 1) ELSE tok)

RECURSIVE NatStr(_)
NatStr(v) == IF v < 10 THEN DigitChr(v) ELSE NatStr(v \div 10) \o DigitChr(v % 10)

RECURSIVE PadLeft(_, _)
PadLeft(s, width) == IF Len(s) >= width THEN s ELSE PadLeft(" " \o s, width)

(***************************************************************************)
(* The float that holds the number n/d (0 < n/d) is the binary number of   *)
(* 53 significant bits nearest to it.  FractionBit(r, d, k) is bit k after *)
(* the binary point of r/d (r < d), FractionRest its remainder.            *)
(***************************************************************************)
RECURSIVE FractionRest(_, _, _)
FractionRest(r, d, k) == IF k = 0 THEN r ELSE (2 * FractionRest(r, d, k - 1)) % d
FractionBit(r, d, k) == IF 2 * FractionRest(r, d, k - 1) >= d THEN 1 ELSE 0

RECURSIVE BitLength(_)
BitLength(i) == IF i = 0 THEN 0 ELSE 1 + BitLength(i \div 2)

\* the float holding n/d is greater than n/d: the bit after its 53 significant bits is 1
\* (n/d is no binary fraction, so more bits follow)
FloatIsAbove(n, d) ==
    LET b == BitLength(n \div d)
        r == n % d
        z == CHOOSE k \in 0..1100 : FractionBit(r, d, k + 1) = 1 /\ \A j \in 1..k : FractionBit(r, d, j) = 0
    IN  IF b >= 1 THEN FractionBit(r, d, 54 - b) = 1
        ELSE FractionBit(r, d, z + 54) = 1

(***************************************************************************)
(* "%8.3f" % x: the float rounded to three decimals, right-justified in 8  *)
(* columns and never cut.  A number halfway between two texts goes to the  *)
(* even digit if the float holds it exactly, else to the side on which the *)
(* float that holds it lies.  The text of an Unknown number is unknown,    *)
(* written ????????.                                                       *)
(***************************************************************************)
Format83(x) ==
    IF IsNaN(x) THEN "     nan"
    ELSE IF IsInf(x) THEN (IF x.neg THEN "    -inf" ELSE "     inf")
    ELSE IF IsUnknown(x) THEN "????????"
    ELSE LET t == (x.n % x.d) * 1000
             q == t \div x.d
             r == t % x.d
             up == IF 2 * r # x.d THEN 2 * r > x.d
                   ELSE IF \E k \in 0..30 : x.d = 2 ^ k THEN q % 2 = 1
                   ELSE FloatIsAbove(x.n, x.d)
             m == IF up THEN q + 1 ELSE q
             f == m % 1000
         IN  PadLeft((IF x.neg THEN "-" ELSE "") \o NatStr(x.n \div x.d + m \div 1000) \o "."
                     \o DigitChr(f \div 100) \o DigitChr((f \div 10) % 10) \o DigitChr(f % 10), 8)

FormatPoint(p) == Format83(p[1]) \o Format83(p[2]) \o Format83(p[3])

(***************************************************************************)
(* SASModel.read: what parsing the lines gives, [header, atoms] or the     *)
(* exception that ends the loop.                                           *)
(***************************************************************************)
ParseAtomLine(line) ==
    LET args == Split(line)
    IN  IF Len(args) < 7 THEN [raised |-> "IndexError"]
        ELSE LET x == ParseFloat(args[7])
             IN  IF "raised" \in DOMAIN x THEN x
                 ELSE IF Len(args) < 8 THEN [raised |-> "IndexError"]
                 ELSE LET y == ParseFloat(args[8])
                      IN  IF "raised" \in DOMAIN y THEN y
                          ELSE IF Len(args) < 9 THEN [raised |-> "IndexError"]
                          ELSE LET z == ParseFloat(args[9])
                               IN  IF "raised" \in DOMAIN z THEN z
                                   ELSE [val |-> <<x.val, y.val, z.val>>]

RECURSIVE ParseLines(_, _, _)
ParseLines(lines, i, pts) ==
    IF i > Len(lines) THEN [header |-> lines, atoms |-> Arr(pts)]
    ELSE IF StartsWithATOM(lines[i])
         THEN LET a == ParseAtomLine(lines[i])
              IN  IF "raised" \in DOMAIN a THEN a
                  ELSE ParseLines(lines, i + 1, Append(pts, a.val))
    ELSE ParseLines(lines, i + 1, pts)

read(content) == ParseLines(FileLines(content), 1, <<>>)

Read(m, filename) ==
    /\ IF disk[filename] = Missing
       THEN /\ ret' = Raised("read", m, "IOError")
            /\ UNCHANGED <<header, atoms>>
       ELSE LET r == read(disk[filename].text)
            IN  IF "raised" \in DOMAIN r
                THEN /\ ret' = Raised("read", m, r.raised)
                     /\ UNCHANGED <<header, atoms>>
                ELSE /\ ret' = Returned("read", m, None)
                     /\ header' = [header EXCEPT ![m] = r.header]
                     /\ atoms' = [atoms EXCEPT ![m] = r.atoms]
    /\ UNCHANGED <<com, inertensor, _fineness, _sem, pc, ncalc, disk>>

(***************************************************************************)
(* SASModel.save: the text written, and the exception if one ends it.      *)
(***************************************************************************)
SaveLine(line, a, nr) ==
    IF nr < Len(a.pts)
    THEN Slice(line, 0, 30) \o FormatPoint(a.pts[nr + 1]) \o SliceFrom(line, 54)
    ELSE ""

RECURSIVE SaveLines(_, _, _, _, _)
SaveLines(lines, a, i, nr, text) ==
    IF i > Len(lines) THEN [text |-> text]
    ELSE IF StartsWithATOM(lines[i])
         THEN IF ~IsArr(a) THEN [text |-> text, raised |-> "AttributeError"]   \* [].shape
              ELSE SaveLines(lines, a, i + 1, nr + 1, text \o SaveLine(lines[i], a, nr))
    ELSE SaveLines(lines, a, i + 1, nr, text \o lines[i])

save(hdr, a) == SaveLines(hdr, a, 1, 0, "")

Save(m, filename) ==
    LET w == save(header[m], atoms[m])
    IN  /\ disk' = [disk EXCEPT ![filename] = File(w.text)]
        /\ ret' = IF "raised" \in DOMAIN w THEN Raised("save", m, w.raised)
                  ELSE Returned("save", m, None)
        /\ UNCHANGED <<atoms, header, com, inertensor, _fineness, _sem, pc, ncalc>>

\* m.atoms = numpy.array(points)
SetAtoms(m, pts) ==
    /\ atoms' = [atoms EXCEPT ![m] = Arr(pts)]
    /\ ret' = Returned("atoms", m, None)
    /\ UNCHANGED <<header, com, inertensor, _fineness, _sem, pc, ncalc, disk>>

(***************************************************************************)
(* The files the model is run on: up to MaxLines lines.                    *)
(***************************************************************************)
LineRemark == "REMARK 265 bead model\n"
LineAtomA == "ATOM      1  CA  ASP A   1       1.000   0.000   0.000  1.00 20.00\n"
LineAtomB == "ATOM      1  CA  ASP A   1      -1.500  -0.000   0.125  1.00 20.00\n"
LineAtomTwoDecimals == "ATOM      1  CA  ASP A   1        1.00    2.00    3.00  1.00 20.00\n"
LineAtomFree == "ATOM 1 CA ASP A 1 1.0 2.0 3.0\n"
LineAtomNoChain == "ATOM      2  CA  ASP     2       1.000   2.000   3.000  1.00 20.00\n"
LineAtomShort == "ATOM      3  CA  ASP A\n"
LineAtomBadFloat == "ATOM      1  CA  ASP A   1       1.0x0   2.000   3.000  1.00 20.00\n"

LineAtomForms == "ATOM 1 CA ASP A 1 1e1-INF1_0.5 20.00\r\n"
LineAtomTies == "ATOM      1  CA  ASP A   1      0.0005  0.0625   2.5E-3  1.00 20.00\r"

FileLineSet == {LineRemark, LineAtomA, LineAtomB, LineAtomTwoDecimals, LineAtomFree,
                LineAtomNoChain, LineAtomShort, LineAtomBadFloat, LineAtomForms, LineAtomTies}

RECURSIVE Concat(_)
Concat(lines) == IF Len(lines) = 0 THEN "" ELSE lines[1] \o Concat(Tail(lines))

InputFiles == {Concat(ls) : ls \in SeqsUpTo(FileLineSet, MaxLines)}

AssignedAtoms == {<<>>, <<Pt(0, 0, 0)>>, <<Pt(1, 0, 0), <<Frac(-5, 4), Frac(1, 8), R(12345)>>>>}

InitFile ==
    /\ InitModel
    /\ pc = [t \in Threads |-> "idle"]
    /\ ncalc = [m \in Models |-> 0]
    /\ ret = NoCall
    /\ disk \in {[f \in FileNames |-> IF f = "in" THEN File(c) ELSE Missing] : c \in InputFiles}

NextFile ==
    \/ Read(Self, "in")
    \/ \E p \in AssignedAtoms : SetAtoms(Self, p)
    \/ Save(Self, "out")

SpecFile == InitFile /\ [][NextFile]_vars


(***************************************************************************)
(* What the claims about read and save speak of.                           *)
(***************************************************************************)
AtomLines(hdr) == {i \in 1..Len(hdr) : StartsWithATOM(hdr[i])}
\* the number of ATOM records before line i
Rank(hdr, i) == Cardinality({j \in AtomLines(hdr) : j < i})

\* the model holds what read made of the file "in", and save has just written "out"
SavedAsRead ==
    /\ ret = Returned("save", Self, None)
    /\ disk["in"] # Missing /\ disk["out"] # Missing
    /\ LET r == read(disk["in"].text)
       IN  /\ "atoms" \in DOMAIN r
           /\ header[Self] = r.header
           /\ atoms[Self] = r.atoms

(***************************************************************************)
(* C4: for every input file, read then save with the atoms unchanged       *)
(* writes a file identical to the input, character for character.          *)
(* Refuted by a record in the fixed columns whose chain column is blank:   *)
(* read takes the 7th to 9th whitespace-separated fields, which are then   *)
(* y, z and the occupancy, and save writes those into columns 31-54.       *)
(***************************************************************************)
C4_RoundTrip == SavedAsRead => disk["out"].text = disk["in"].text

\* the lines of the header that save is to write for k atoms: the other lines and the first k ATOM records
Kept(hdr, k) ==
    LET idx == {i \in 1..Len(hdr) : i \notin AtomLines(hdr) \/ Rank(hdr, i) < k}
    IN  Tup([j \in 1..Cardinality(idx) |-> CHOOSE i \in idx : Cardinality({h \in idx : h < i}) = j - 1])

\* new is the record old with the coordinate fields, columns 31-54, holding the point p and all else as it was
OnlyCoordinatesReplaced(old, new, p) ==
    LET w == Len(FormatPoint(p))
    IN  /\ Slice(new, 0, 30) = Slice(old, 0, 30)
        /\ Slice(new, 30, 30 + w) = FormatPoint(p)
        /\ SliceFrom(new, 30 + w) = SliceFrom(old, 54)

SavedFewerAtoms ==
    /\ ret = Returned("save", Self, None)
    /\ IsArr(atoms[Self])
    /\ NAtoms(atoms[Self]) <= Cardinality(AtomLines(header[Self]))

(***************************************************************************)
(* C10: for every header with m ATOM records and every array of k <= m     *)
(* atoms, the file save writes holds, line by line, the other lines        *)
(* verbatim and in place and the first k ATOM records in order, each with  *)
(* only its coordinate fields replaced by its atom, and nothing for the    *)
(* other ATOM records.  Refuted by an ATOM record that ends before column  *)
(* 54, which read accepts: the coordinates are written behind its line     *)
(* end, in front of the next line.                                         *)
(***************************************************************************)
C10_SaveOverwritesCoordinates ==
    SavedFewerAtoms =>
        LET hdr   == header[Self]
            kept  == Kept(hdr, NAtoms(atoms[Self]))
            lines == FileLines(disk["out"].text)
        IN  /\ Len(lines) = Len(kept)
            /\ \A j \in 1..Len(kept) :
                  IF kept[j] \in AtomLines(hdr)
                  THEN OnlyCoordinatesReplaced(hdr[kept[j]], lines[j], atoms[Self].pts[Rank(hdr, kept[j]) + 1])
                  ELSE lines[j] = hdr[kept[j]]


(***************************************************************************)
(* Geometry: centroid, inertia tensor and canonical pose.                  *)
(* com and inertensor hold PyList (the [] of __init__), Scalar(x) (a       *)
(* numpy scalar), Vec(v) (a 1-d array), Mat(M) (a 2-d array), or           *)
(* Uninitialized (numpy.empty((3,3)) never filled).                        *)
(***************************************************************************)
Scalar(x) == [ndarray |-> TRUE, scalar |-> x]
Vec(v) == [ndarray |-> TRUE, vec |-> v]
Mat(M) == [ndarray |-> TRUE, mat |-> M]
Uninitialized == [ndarray |-> TRUE, empty |-> TRUE]
IsScalar(a) == "scalar" \in DOMAIN a
IsVec(a) == "vec" \in DOMAIN a
IsMat(a) == "mat" \in DOMAIN a

\* mol.mean(axis=0)
MeanAxis0(pts) == Tup([k \in 1..3 |-> Mean(Column(pts, k))])

centroid(a) ==
    IF ~IsArr(a) THEN [raised |-> "AttributeError"]       \* [].mean
    ELSE IF Len(a.pts) = 0 THEN [val |-> Scalar(NaN)]     \* the mean of an empty 1-d array
    ELSE [val |-> Vec(MeanAxis0(a.pts))]

Centroid(m) ==
    LET c == centroid(atoms[m])
    IN  /\ IF "raised" \in DOMAIN c
           THEN ret' = Raised("centroid", m, c.raised) /\ UNCHANGED com
           ELSE ret' = Returned("centroid", m, None) /\ com' = [com EXCEPT ![m] = c.val]
        /\ UNCHANGED <<atoms, header, inertensor, _fineness, _sem, pc, ncalc, disk>>

\* self.atoms - self.com for an array of one atom or more
Centered(pts, c) ==
    Tup2([a \in 1..Len(pts) |-> [k \in 1..3 |->
            RSub(pts[a][k], IF IsScalar(c) THEN c.scalar ELSE c.vec[k])]])

delta_kron(i, j) == IF i = j THEN 1 ELSE 0

TensorOf(mol) ==
    LET sq == Tup([a \in 1..Len(mol) |->
                    RSum(Tup([k \in 1..3 |-> RMul(mol[a][k], mol[a][k])]))])      \* (mol**2).sum(axis=1)
    IN  Tup2([i \in 1..3 |-> [j \in 1..3 |->
            RDiv(RSum(Tup([a \in 1..Len(mol) |->
                        RSub(RMul(R(delta_kron(i, j)), sq[a]), RMul(mol[a][i], mol[a][j]))])),
                 R(Len(mol)))]])

\* what inertiatensor assigns to inertensor, if anything, and what it raises, if anything
inertiatensor(a, c) ==
    IF ~IsArr(a) /\ c = PyList THEN [raised |-> "TypeError"]                  \* [] - []
    ELSE IF NAtoms(a) = 0
         THEN IF IsVec(c) THEN [raised |-> "ValueError"]                        \* shapes (0,) and (3,)
              ELSE [tensor |-> Uninitialized, raised |-> "AxisError"]            \* sum(axis=1) of a 1-d array
    ELSE IF c = PyList THEN [raised |-> "ValueError"]        \* shapes (n,3) and (0,)
    ELSE [tensor |-> Mat(TensorOf(Centered(a.pts, c)))]

InertiaTensor(m) ==
    LET r == inertiatensor(atoms[m], com[m])
    IN  /\ ret' = IF "raised" \in DOMAIN r THEN Raised("inertiatensor", m, r.raised)
                  ELSE Returned("inertiatensor", m, None)
        /\ inertensor' = IF "tensor" \in DOMAIN r THEN [inertensor EXCEPT ![m] = r.tensor]
                         ELSE inertensor
        /\ UNCHANGED <<atoms, header, com, _fineness, _sem, pc, ncalc, disk>>

\* canonical_translate: the 4x4 matrix, or the exception of -[]
canonical_translate(c) ==
    IF c = PyList THEN [raised |-> "TypeError"]
    ELSE [val |-> Tup2([i \in 1..4 |-> [j \in 1..4 |->
                    IF j = 4 /\ i <= 3 THEN RNeg(IF IsScalar(c) THEN c.scalar ELSE c.vec[i])
                    ELSE IF i = j THEN R(1) ELSE R(0)]])]

CanonicalTranslate(m) ==
    LET t == canonical_translate(com[m])
    IN  /\ ret' = IF "raised" \in DOMAIN t THEN Raised("canonical_translate", m, t.raised)
                  ELSE Returned("canonical_translate", m, t.val)
        /\ UNCHANGED <<atoms, header, com, inertensor, _fineness, _sem, pc, ncalc, disk>>

(***************************************************************************)
(* numpy.linalg.eigh.  For a tensor that is diagonal the eigenvalues are   *)
(* its diagonal in ascending order.  The eigenvector of an eigenvalue that *)
(* occurs once is its coordinate axis with either sign.  The eigenvectors  *)
(* of an eigenvalue that occurs more than once are some orthonormal basis  *)
(* of the span of its axes, which numpy does not specify: the axes in any  *)
(* order with any signs, or vectors of that span whose components the      *)
(* exact arithmetic does not determine (Unknown).  The outcomes are every  *)
(* such (w, v).  For any other finite tensor it                            *)
(* returns eigenvalues and eigenvectors that the exact arithmetic does not *)
(* determine: Unknown.  A tensor holding a NaN either fails to converge or *)
(* gives NaNs.  A never-filled tensor holds whatever the memory held: the  *)
(* outcomes are the failure, the NaNs and any decomposition (Unknown).     *)
(***************************************************************************)
Perms3 == {p \in [1..3 -> 1..3] : {p[1], p[2], p[3]} = 1..3}
Signs3 == [1..3 -> {1, -1}]
\* the matrix whose column k is sgn[k] times the axis p[k]
AxisMatrix(p, sgn) == Tup2([i \in 1..3 |-> [k \in 1..3 |-> IF p[k] = i THEN R(sgn[k]) ELSE R(0)]])

HasNaN(M) == \E i, j \in 1..3 : IsNaN(M[i][j])
IsDiagonal(M) ==
    /\ \A i, j \in 1..3 : ~IsNaN(M[i][j]) /\ ~IsUnknown(M[i][j])
    /\ \A i, j \in 1..3 : i # j => IsZero(M[i][j])

NaNOutcome == [w |-> <<NaN, NaN, NaN>>, v |-> Tup2([i \in 1..3 |-> [j \in 1..3 |-> NaN]])]
UnknownOutcome == [w |-> <<Unknown, Unknown, Unknown>>, v |-> Tup2([i \in 1..3 |-> [j \in 1..3 |-> Unknown]])]

\* the orders of the indices of the diagonal in which its entries ascend, equal entries in any order
Ascending(M) == {p \in Perms3 : \A k \in 1..2 : ~RLt(M[p[k + 1]][p[k + 1]], M[p[k]][p[k]])}

\* the axes i and j have the same eigenvalue
SameEigenvalue(M, i, j) == ~RLt(M[i][i], M[j][j]) /\ ~RLt(M[j][j], M[i][i])
Degenerate(M, i) == \E j \in 1..3 : j # i /\ SameEigenvalue(M, i, j)

\* column k is sgn[k] times the axis p[k] if its eigenvalue occurs once, else an undetermined vector of the eigenspace
EigenspaceMatrix(M, p, sgn) ==
    Tup2([i \in 1..3 |-> [k \in 1..3 |->
        IF Degenerate(M, p[k]) /\ SameEigenvalue(M, i, p[k]) THEN Unknown
        ELSE IF p[k] = i THEN R(sgn[k]) ELSE R(0)]])

eigh(T) ==
    IF T = Uninitialized THEN {[raised |-> "LinAlgError"], NaNOutcome, UnknownOutcome}
    ELSE IF ~IsMat(T) THEN {[raised |-> "LinAlgError"]}
    ELSE IF HasNaN(T.mat) THEN {[raised |-> "LinAlgError"], NaNOutcome}
    ELSE IF IsDiagonal(T.mat)
         THEN UNION {{[w |-> Tup([k \in 1..3 |-> T.mat[p[k]][p[k]]]), v |-> AxisMatrix(p, sgn)],
                      [w |-> Tup([k \in 1..3 |-> T.mat[p[k]][p[k]]]), v |-> EigenspaceMatrix(T.mat, p, sgn)]}
                     : <<p, sgn>> \in Ascending(T.mat) \X Signs3}
    ELSE {UnknownOutcome}

\* w.argsort(): the stable ascending order of the indices (a NaN sorts last)
Before(w, i, j) == IF IsNaN(w[i]) THEN IsNaN(w[j]) /\ i < j
                   ELSE IsNaN(w[j]) \/ RLt(w[i], w[j]) \/ (~RLt(w[j], w[i]) /\ i < j)
argsort(w) == CHOOSE p \in Perms3 : \A k \in 1..2 : Before(w, p[k], p[k + 1])

\* the 4x4 matrix canonical_rotate builds from one outcome of eigh
RotationOf(e) ==
    LET order == argsort(e.w)
        mat   == Tup2([i \in 1..3 |-> [k \in 1..3 |-> e.v[i][order[k]]]])      \* v[:, w.argsort()]
    IN  Tup2([i \in 1..4 |-> [j \in 1..4 |->
            IF i <= 3 /\ j <= 3 THEN mat[j][i]                                   \* mat.T
            ELSE IF i = 4 /\ j = 4 THEN R(1) ELSE R(0)]])

canonical_rotate(T) ==
    {IF "raised" \in DOMAIN e THEN e ELSE [val |-> RotationOf(e)] : e \in eigh(T)}

CanonicalRotate(m) ==
    /\ \E r \in canonical_rotate(inertensor[m]) :
          ret' = IF "raised" \in DOMAIN r THEN Raised("canonical_rotate", m, r.raised)
                 ELSE Returned("canonical_rotate", m, r.val)
    /\ UNCHANGED <<atoms, header, com, inertensor, _fineness, _sem, pc, ncalc, disk>>

\* numpy.dot of two 2-d arrays
Dot(A, B) ==
    Tup2([i \in 1..Len(A) |-> [j \in 1..Len(B[1]) |->
            RSum(Tup([k \in 1..Len(B) |-> RMul(A[i][k], B[k][j])]))]])

\* the rows x, y, z, 1 of the homogeneous coordinates: append(mol.T, ones((1, n)), axis=0)
Homogeneous(pts) ==
    Tup2([k \in 1..4 |-> [a \in 1..Len(pts) |-> IF k = 4 THEN R(1) ELSE pts[a][k]]])

\* numpy.delete(mol, 3, axis=0).T
Dehomogenized(mol) == Tup2([a \in 1..Len(mol[1]) |-> [k \in 1..3 |-> mol[k][a]]])

canonical_position(a, c, T) ==
    IF ~IsArr(a) THEN {[raised |-> "AttributeError"]}          \* [].T
    ELSE IF Len(a.pts) = 0 THEN {[raised |-> "ValueError"]}    \* append of a 1-d and a 2-d array
    ELSE LET t == canonical_translate(c)
         IN  IF "raised" \in DOMAIN t THEN {t}
             ELSE {IF "raised" \in DOMAIN r THEN r
                   ELSE [val |-> Arr(Dehomogenized(Dot(r.val, Dot(t.val, Homogeneous(a.pts)))))] :
                     r \in canonical_rotate(T)}

CanonicalPosition(m) ==
    /\ \E r \in canonical_position(atoms[m], com[m], inertensor[m]) :
          IF "raised" \in DOMAIN r
          THEN ret' = Raised("canonical_position", m, r.raised) /\ UNCHANGED atoms
          ELSE /\ ret' = Returned("canonical_position", m, None)
               /\ atoms' = [atoms EXCEPT ![m] = r.val]
    /\ UNCHANGED <<header, com, inertensor, _fineness, _sem, pc, ncalc, disk>>

RECURSIVE Det(_)
Minor(M, c) == Tup2([i \in 1..Len(M) - 1 |-> [j \in 1..Len(M) - 1 |->
                    M[i + 1][IF j < c THEN j ELSE j + 1]]])
Det(M) == IF Len(M) = 1 THEN M[1][1]
          ELSE RSum(Tup([c \in 1..Len(M) |->
                    RMul(IF c % 2 = 1 THEN M[1][c] ELSE RNeg(M[1][c]), Det(Minor(M, c)))]))

(***************************************************************************)
(* One model driven from a single thread: it is read or assigned its       *)
(* atoms, and its centroid, inertia tensor and canonical matrices are      *)
(* computed, in any order.                                                 *)
(***************************************************************************)
GeomFile == LineRemark
            \o "ATOM      1  CA  ASP A   1       0.000   0.000   0.000  1.00 20.00\n"
            \o "ATOM      2  CA  ASP A   2       2.000   0.000   0.000  1.00 20.00\n"
            \o "ATOM      3  CA  ASP A   3       1.000   3.000   0.000  1.00 20.00\n"

GeomFiles == {LineRemark, GeomFile}
GeomAtoms == {<<Pt(0, 0, 0)>>}

InitGeom ==
    /\ InitModel
    /\ pc = [t \in Threads |-> "idle"]
    /\ ncalc = [m \in Models |-> 0]
    /\ ret = NoCall
    /\ disk \in {[f \in FileNames |-> IF f = "in" THEN File(c) ELSE Missing] : c \in GeomFiles}

NextGeom ==
    \/ Read(Self, "in")
    \/ \E p \in GeomAtoms : SetAtoms(Self, p)
    \/ Centroid(Self)
    \/ InertiaTensor(Self)
    \/ CanonicalTranslate(Self)
    \/ CanonicalRotate(Self)

SpecGeom == InitGeom /\ [][NextGeom]_vars

(***************************************************************************)
(* C5: the matrix canonical_rotate returns has determinant +1, for any     *)
(* model.  Refuted: the eigenvectors are taken as eigh returns them, in    *)
(* ascending order of the eigenvalues, and nothing corrects a reflection.  *)
(* Stated for an inertia tensor that has been computed and is finite.      *)
(***************************************************************************)
C5_RotationIsProper ==
    (/\ ret.op = "canonical_rotate" /\ ret.m = Self /\ "val" \in DOMAIN ret
     /\ IsMat(inertensor[Self]) /\ IsDiagonal(inertensor[Self].mat))
        => Det(ret.val) = R(1)

(***************************************************************************)
(* C7: centroid() on a model with zero atoms fails with EmptyModelError    *)
(* and stores no NaN in com.  Refuted: on the empty array that read leaves *)
(* for a file without ATOM lines it returns and stores NaN, and on the     *)
(* list of a new model it raises AttributeError.                           *)
(***************************************************************************)
C7_EmptyCentroidFails ==
    (ret.op = "centroid" /\ ret.m = Self /\ NAtoms(atoms[Self]) = 0)
        => /\ "raised" \in DOMAIN ret
           /\ ret.raised = "EmptyModelError"
           /\ com[Self] # Scalar(NaN)

(***************************************************************************)
(* One model read from a file, moved to its canonical position and         *)
(* reassigned, while its fineness is read.                                 *)
(***************************************************************************)
PoseFile == "ATOM      1  CA  ASP A   1      -1.000   0.000   0.000  1.00 20.00\n"
            \o "ATOM      2  CA  ASP A   2       1.000   0.000   0.000  1.00 20.00\n"
PoseAtoms == {<<>>, <<Pt(0, 0, 0)>>}

InitPose ==
    /\ InitModel
    /\ pc = [t \in Threads |-> "idle"]
    /\ ncalc = [m \in Models |-> 0]
    /\ ret = NoCall
    /\ disk = [f \in FileNames |-> IF f = "in" THEN File(PoseFile) ELSE Missing]

NextPose ==
    \/ Read(Self, "in")
    \/ \E p \in PoseAtoms : SetAtoms(Self, p)
    \/ Centroid(Self)
    \/ InertiaTensor(Self)
    \/ CanonicalPosition(Self)
    \/ Fineness(Self)

SpecPose == InitPose /\ [][NextPose]_vars

(***************************************************************************)
(* C8: once the fineness of a model has been computed, no operation        *)
(* changes the cached value: not centroid, inertiatensor,                  *)
(* canonical_position, read or an assignment of atoms, and not a later     *)
(* read of the property.                                                   *)
(***************************************************************************)
C8_FinenessFixed ==
    [][_fineness[Self] # None => _fineness'[Self] = _fineness[Self]]_vars

\* the property read again after the atoms it was computed from were replaced
C8_Witness ==
    /\ ret.op = "fineness" /\ ret.m = Self /\ "val" \in DOMAIN ret
    /\ _fineness[Self] = ret.val
    /\ NAtoms(atoms[Self]) = 1
    /\ [val |-> ret.val] # _calc_fineness(atoms[Self])

=============================================================================
